---- MODULE Spec2Model ----
(***************************************************************************)
(* Zeroing drop wrappers of zerodrop-rs: ZeroDrop (src/zd.rs and the crate *)
(* root src/lib.rs), ZeroDropDrop (src/zdd.rs, src/lib.rs) and ZeroDropCow *)
(* (src/cow.rs), modelled over an explicit heap of Box<T> allocations.     *)
(*                                                                         *)
(* A value of T is its byte image: a function 1..Size -> 0..MaxByte.       *)
(* Block 0 is memory the caller owns (the array a ZeroDropCow borrows);    *)
(* blocks 1..MaxHeap are heap allocations.  A block id names an            *)
(* allocation: a freed block keeps the bytes it held when it was released  *)
(* and is never handed out again, so a pointer captured before a drop      *)
(* reads heap[p].val afterwards.                                           *)
(***************************************************************************)
EXTENDS Integers, Sequences, FiniteSets, TLC

VARIABLES heap, objs, dflt, counter

vars == <<heap, objs, dflt, counter>>

\* Bounds of the model.
MaxByte == 1
Size == 2
MaxHeap == 2
MaxObj == 2

Byte == 0..MaxByte
T == [1..Size -> Byte]
Blocks == 0..MaxHeap
HeapBlocks == 1..MaxHeap
Objs == 1..MaxObj

Fill(x) == [i \in 1..Size |-> x]
Zero == Fill(0)
\* The secrets callers store, and the images an uninitialized block may show.
Ramp == [i \in 1..Size |-> IF i = 1 THEN MaxByte ELSE 0]
Junk == [i \in 1..Size |-> IF i = Size THEN MaxByte ELSE 0]
Inputs == {Fill(MaxByte), Ramp}
Uninit == {Fill(MaxByte), Junk}
\* <T as Default>::default() of the types the wrappers are instantiated with:
\* the all-zero image ([u8; 32]) or a type whose Default impl is not all-zero.
Defaults == {Zero, Fill(MaxByte)}

Kinds == {"ZeroDrop", "LibZeroDrop", "ZeroDropDrop", "ZeroDropCow"}
BoxKinds == {"ZeroDrop", "LibZeroDrop", "ZeroDropDrop"}

\* A wrapper.  kind, st, tag and ptr are the program's; the rest is history:
\* want the value last put in it by its constructor or through write access,
\* dirty whether write access or zero_out was used on it, via/src/srcTag/srcPtr the operation and the
\* wrapper it was made from, allocd how many blocks that operation allocated.
NoObj == [kind |-> "none", st |-> "free", tag |-> "none", ptr |-> 0,
          want |-> Zero, dirty |-> FALSE, via |-> "none", src |-> 0,
          srcTag |-> "none", srcPtr |-> 0, allocd |-> 0]
\* A block.  st and val are the program's; erasures counts the end-of-life
\* erasing writes that reached it, store is the kind of that write, owner the
\* wrapper type that released it, log what ZeroDropDrop's end of life did.
NoBlock == [st |-> "unalloc", val |-> Zero, erasures |-> 0, store |-> "none",
            owner |-> "none", log |-> <<>>]

TypeOK ==
    /\ heap \in [Blocks -> [st : {"caller", "unalloc", "live", "freed"}, val : T,
                            erasures : 0..2, store : {"none", "volatile", "ordinary"},
                            owner : Kinds \cup {"none"}, log : Seq(STRING)]]
    /\ objs \in [Objs -> [kind : Kinds \cup {"none"}, st : {"free", "alive", "dropped"},
                          tag : {"none", "Boxed", "Borrowed"}, ptr : Blocks,
                          want : T, dirty : BOOLEAN, via : STRING, src : 0..MaxObj,
                          srcTag : {"none", "Boxed", "Borrowed"}, srcPtr : Blocks,
                          allocd : 0..1]]
    /\ dflt \in Defaults
    /\ counter \in 0..(2 * MaxHeap)

----------------------------------------------------------------------------
\* Memory primitives.

\* ::std::intrinsics::volatile_set_memory::<T>(s, byte, 1): every byte of *s.
volatile_set_memory(v, byte) == [i \in DOMAIN v |-> byte]

\* ::std::ptr::copy_nonoverlapping::<T>(t, dst, 1): byte-for-byte copy of *t.
copy_nonoverlapping(t) == [i \in 1..Size |-> t[i]]

\* ::std::mem::swap::<T>(a, b) on the two referents: <<new *a, new *b>>.
swap(a, b) == <<b, a>>

\* Box::new: the allocator hands out the next block never handed out before.
Unallocated == {b \in HeapBlocks : heap[b].st = "unalloc"}
CanAlloc == Unallocated # {}
NewBlock == CHOOSE b \in Unallocated : \A c \in Unallocated : b <= c
FreeObjs == {o \in Objs : objs[o].st = "free"}
CanMake == FreeObjs # {}
NewObj == CHOOSE o \in FreeObjs : \A p \in FreeObjs : o <= p

Alive(o) == objs[o].st = "alive"
Owning(o) == objs[o].tag = "Boxed"
\* Memory a shared reference &T with T: Copy can point at: the caller's array,
\* or the contents of a live wrapper of a Copy type.
Readable ==
    {b \in Blocks :
        \/ heap[b].st = "caller"
        \/ \E o \in Objs : /\ objs[o].st = "alive" /\ objs[o].tag = "Boxed"
                            /\ objs[o].ptr = b /\ objs[o].kind # "ZeroDropDrop"}
\* The borrow checker: while a Borrowed ZeroDropCow<'a, T> holds &'a T into a
\* block, the block can be neither written, moved nor dropped.
Lent(b) == \E c \in Objs : Alive(c) /\ objs[c].tag = "Borrowed" /\ objs[c].ptr = b
Exclusive(o) == Alive(o) /\ Owning(o) /\ ~Lent(objs[o].ptr)

LiveBlock(v) == [NoBlock EXCEPT !.st = "live", !.val = v]
Wrapper(kind, tag, p, v, via) ==
    [NoObj EXCEPT !.kind = kind, !.st = "alive", !.tag = tag, !.ptr = p,
                  !.want = v, !.via = via]
AllocCount(h) == Cardinality({b \in HeapBlocks : h[b].st # "unalloc"})
\* w as made from the wrapper `from` by a step that takes the heap to h.
Derived(w, from, h) ==
    [w EXCEPT !.src = from, !.srcTag = objs[from].tag, !.srcPtr = objs[from].ptr,
              !.allocd = AllocCount(h) - AllocCount(heap)]

\* zd.rs and lib.rs both define ZeroDrop, and ZeroDropDrop's T: Drop is never
\* the T: Copy of the others: a program's wrappers come from one of the three
\* groups, and wrappers of different groups share no memory.
Group(kind) ==
    IF kind \in {"ZeroDrop", "ZeroDropCow"} THEN {"ZeroDrop", "ZeroDropCow"} ELSE {kind}
Uses(kind) == \A o \in Objs : objs[o].kind \in Group(kind) \cup {"none"}

\* Construct with the erasing write already applied to the box it returns.
ConstructErased(kind, v, want) ==
    /\ CanAlloc /\ CanMake /\ Uses(kind)
    /\ heap' = [heap EXCEPT ![NewBlock] = LiveBlock(volatile_set_memory(v, 0))]
    /\ objs' = [objs EXCEPT ![NewObj] = Wrapper(kind, "Boxed", NewBlock, want, "new")]
    /\ UNCHANGED <<dflt, counter>>

\* A constructor that boxes the image v in a fresh allocation.
Construct(kind, v, want) ==
    /\ CanAlloc /\ CanMake /\ Uses(kind)
    /\ heap' = [heap EXCEPT ![NewBlock] = LiveBlock(v)]
    /\ objs' = [objs EXCEPT ![NewObj] = Wrapper(kind, "Boxed", NewBlock, want, "new")]
    /\ UNCHANGED <<dflt, counter>>

\* Box<T>'s release once the wrapper's own Drop::drop has returned or unwound:
\* the block goes back to the allocator holding what Drop::drop left in it.
Release(blk, kind) == [blk EXCEPT !.st = "freed", !.owner = kind]

----------------------------------------------------------------------------
\* Delegation to Box<T>, the same text in zd.rs, zdd.rs and lib.rs.

\* <T as Clone>::clone of a T: Copy (and of a well-behaved T: Clone): the same
\* bytes in a new place.
T_clone(t) == [i \in 1..Size |-> t[i]]

\* BoxClone handing out a second owner of the same allocation.
BoxCloneShared(o) ==
    /\ heap' = heap
    /\ objs' = [objs EXCEPT ![NewObj] =
                   Derived(Wrapper(objs[o].kind, "Boxed", objs[o].ptr,
                                   heap[objs[o].ptr].val, "clone"), o, heap')]

\* Box<T>::clone: a new allocation holding a clone of *self.
BoxClone(o) ==
    /\ heap' = [heap EXCEPT ![NewBlock] = LiveBlock(T_clone(heap[objs[o].ptr].val))]
    /\ objs' = [objs EXCEPT ![NewObj] =
                   Derived(Wrapper(objs[o].kind, "Boxed", NewBlock,
                                   heap[objs[o].ptr].val, "clone"), o, heap')]

clone ==
    \E o \in Objs :
        /\ Alive(o) /\ objs[o].kind \in BoxKinds
        /\ CanAlloc /\ CanMake
        /\ BoxClone(o)
        /\ UNCHANGED <<dflt, counter>>

\* Box<T>::clone_from: *self.0 = *source.0, in self's own allocation.
BoxCloneFrom(o, s) ==
    /\ heap' = [heap EXCEPT ![objs[o].ptr].val = T_clone(heap[objs[s].ptr].val)]
    /\ objs' = [objs EXCEPT ![o] =
                   Derived([@ EXCEPT !.dirty = TRUE, !.via = "clone_from",
                                      !.want = heap[objs[s].ptr].val], s, heap')]

clone_from ==
    \E o \in Objs, s \in Objs :
        /\ o # s /\ Exclusive(o) /\ Alive(s)
        /\ objs[o].kind \in BoxKinds /\ objs[s].kind = objs[o].kind
        /\ BoxCloneFrom(o, s)
        /\ UNCHANGED <<dflt, counter>>

deref ==
    \E o \in Objs :
        /\ Alive(o) /\ objs[o].kind \in BoxKinds
        /\ heap[objs[o].ptr].val \in T
        /\ UNCHANGED vars

deref_mut ==
    \E o \in Objs, v \in Inputs :
        /\ Exclusive(o) /\ objs[o].kind \in BoxKinds
        /\ heap' = [heap EXCEPT ![objs[o].ptr].val = v]
        /\ objs' = [objs EXCEPT ![o].dirty = TRUE, ![o].want = v]
        /\ UNCHANGED <<dflt, counter>>

----------------------------------------------------------------------------
\* ZeroDrop<T> where T: Copy (src/zd.rs).

ZeroDrop_new_insecure ==
    \E t \in Inputs : Construct("ZeroDrop", t, t)

\* The caller's Box::new(t) is wrapped as it is.
ZeroDrop_new_box ==
    \E t \in Inputs : Construct("ZeroDrop", t, t)

ZeroDrop_new_uninitialized ==
    \E g \in Uninit : Construct("ZeroDrop", g, g)

ZeroDrop_new_copy ==
    \E r \in Readable :
        Construct("ZeroDrop", copy_nonoverlapping(heap[r].val), heap[r].val)

ZeroDrop_new_zeroed ==
    \E g \in Uninit : Construct("ZeroDrop", volatile_set_memory(g, 0), Zero)

ZeroDrop_default ==
    Construct("ZeroDrop", dflt, dflt)

ZeroDrop_zero_out ==
    \E o \in Objs :
        /\ Exclusive(o) /\ objs[o].kind = "ZeroDrop"
        /\ heap' = [heap EXCEPT ![objs[o].ptr].val = volatile_set_memory(@, 0)]
        /\ objs' = [objs EXCEPT ![o].dirty = TRUE, ![o].want = Zero]
        /\ UNCHANGED <<dflt, counter>>

\* The erasing write of Drop::drop.
ZeroDropErase(blk) ==
    [blk EXCEPT !.val = volatile_set_memory(@, 0), !.erasures = @ + 1,
                !.store = "volatile"]

ZeroDrop_drop ==
    \E o \in Objs :
        /\ Exclusive(o) /\ objs[o].kind = "ZeroDrop"
        /\ heap' = [heap EXCEPT ![objs[o].ptr] = Release(ZeroDropErase(@), "ZeroDrop")]
        /\ objs' = [objs EXCEPT ![o].st = "dropped"]
        /\ UNCHANGED <<dflt, counter>>

----------------------------------------------------------------------------
\* ZeroDrop<T> where T: Copy+Default (src/lib.rs, the crate root).

LibZeroDrop_new_default ==
    Construct("LibZeroDrop", dflt, dflt)

LibZeroDrop_new_clone ==
    \E r \in Readable :
        Construct("LibZeroDrop", copy_nonoverlapping(heap[r].val), heap[r].val)

LibZeroDrop_new_insecure ==
    \E t \in Inputs : Construct("LibZeroDrop", t, t)

LibZeroDrop_default ==
    Construct("LibZeroDrop", dflt, dflt)

\* *self.0 = Default::default(): an ordinary store of T's default, the last
\* access to the block before Box releases it.  Default::default() is T's
\* code and may panic, in which case nothing is stored; a build may drop a
\* store that nothing reads before the release (elide).
LibZeroDropErase(blk, fail, elide) ==
    IF fail = "default" THEN blk
    ELSE IF elide THEN [blk EXCEPT !.store = "ordinary"]
    ELSE [blk EXCEPT !.val = dflt, !.erasures = @ + 1, !.store = "ordinary"]

LibZeroDrop_drop ==
    \E o \in Objs, fail \in {"none", "default"}, elide \in BOOLEAN :
        /\ Exclusive(o) /\ objs[o].kind = "LibZeroDrop"
        /\ heap' = [heap EXCEPT ![objs[o].ptr] =
                       Release(LibZeroDropErase(@, fail, elide), "LibZeroDrop")]
        /\ objs' = [objs EXCEPT ![o].st = "dropped"]
        /\ UNCHANGED <<dflt, counter>>

----------------------------------------------------------------------------
\* ZeroDropDrop<T> where T: Drop+Default (src/zdd.rs; src/lib.rs holds the same
\* Drop impl and new_default).

ZeroDropDrop_new_default ==
    Construct("ZeroDropDrop", dflt, dflt)

ZeroDropDrop_new_uninitialized ==
    \E g \in Uninit : Construct("ZeroDropDrop", g, g)

ZeroDropDrop_zero_out ==
    \E o \in Objs :
        /\ Exclusive(o) /\ objs[o].kind = "ZeroDropDrop"
        /\ heap' = [heap EXCEPT ![objs[o].ptr].val = volatile_set_memory(@, 0)]
        /\ objs' = [objs EXCEPT ![o].dirty = TRUE, ![o].want = Zero]
        /\ UNCHANGED <<dflt, counter>>

\* What the end of life of a ZeroDropDrop<T> does, in order.  "held" is the
\* value the wrapper held, "default" the value ptr::write put in its place.
\* fail names the call into T's code that panics: drop_in_place's call of
\* <T as Drop>::drop, or Default::default().  The unwinding then leaves
\* Drop::drop, and the drop glue still drops the field self.0: Box<T> runs
\* <T as Drop>::drop on what the block holds and frees the block.  (A second
\* panic during that unwinding aborts the process: T panics at most once here.)
ZeroDropDropLog(fail) ==
    IF fail = "teardown"
    THEN <<"teardown held: panic", "teardown held", "dealloc">>
    ELSE IF fail = "default"
    THEN <<"teardown held", "default: panic", "teardown held", "dealloc">>
    ELSE <<"teardown held", "write default", "teardown default", "dealloc">>

Teardowns(log) ==
    Cardinality({i \in DOMAIN log :
                    log[i] \in {"teardown held: panic", "teardown held", "teardown default"}})

ZeroDropDropErase(blk, fail) ==
    IF fail = "none"
    THEN [blk EXCEPT !.val = dflt, !.erasures = @ + 1, !.store = "ordinary",
                     !.log = ZeroDropDropLog(fail)]
    ELSE [blk EXCEPT !.log = ZeroDropDropLog(fail)]

ZeroDropDrop_drop ==
    \E o \in Objs, fail \in {"none", "teardown", "default"} :
        /\ Exclusive(o) /\ objs[o].kind = "ZeroDropDrop"
        /\ heap' = [heap EXCEPT ![objs[o].ptr] =
                       Release(ZeroDropDropErase(@, fail), "ZeroDropDrop")]
        /\ objs' = [objs EXCEPT ![o].st = "dropped"]
        /\ counter' = counter + Teardowns(ZeroDropDropLog(fail))
        /\ UNCHANGED dflt

----------------------------------------------------------------------------
\* ZeroDropCow<'a, T> where T: Copy (src/cow.rs).

ZeroDropCow_new_insecure ==
    \E t \in Inputs : Construct("ZeroDropCow", t, t)

ZeroDropCow_new_uninitialized ==
    \E g \in Uninit : Construct("ZeroDropCow", g, g)

ZeroDropCow_new ==
    \E r \in Readable :
        /\ CanMake /\ Uses("ZeroDropCow")
        /\ objs' = [objs EXCEPT ![NewObj] =
                       Wrapper("ZeroDropCow", "Borrowed", r, heap[r].val, "new")]
        /\ UNCHANGED <<heap, dflt, counter>>

ZeroDropCow_new_copy ==
    \E r \in Readable :
        Construct("ZeroDropCow", copy_nonoverlapping(heap[r].val), heap[r].val)

ZeroDropCow_default ==
    Construct("ZeroDropCow", dflt, dflt)

\* ZeroDropCowErase without the match on the variant.
ZeroDropCowEraseAny(blk, tag) ==
    [blk EXCEPT !.val = volatile_set_memory(@, 0), !.erasures = @ + 1,
                !.store = "volatile"]

\* Drop for ZeroDropCow: no write for Borrowed(_), the erasing write for
\* Boxed(b); Boxed's Box<T> is released afterwards.
ZeroDropCowErase(blk, tag) ==
    IF tag = "Borrowed" THEN blk
    ELSE [blk EXCEPT !.val = volatile_set_memory(@, 0), !.erasures = @ + 1,
                     !.store = "volatile"]

ZeroDropCowEnd(blk, tag) ==
    IF tag = "Borrowed" THEN ZeroDropCowErase(blk, tag)
    ELSE Release(ZeroDropCowErase(blk, tag), "ZeroDropCow")

ZeroDropCow_drop ==
    \E o \in Objs :
        /\ Alive(o) /\ objs[o].kind = "ZeroDropCow"
        /\ Owning(o) => ~Lent(objs[o].ptr)
        /\ heap' = [heap EXCEPT ![objs[o].ptr] = ZeroDropCowEnd(@, objs[o].tag)]
        /\ objs' = [objs EXCEPT ![o].st = "dropped"]
        /\ UNCHANGED <<dflt, counter>>

\* IntoBoxedHeap copying *o into the new box and letting go of self without
\* running its destructor: the old box is freed as it stands.
IntoBoxedHeapForget(p, tag, g) ==
    IF tag = "Borrowed"
    THEN [heap EXCEPT ![NewBlock] = LiveBlock(copy_nonoverlapping(heap[p].val))]
    ELSE [heap EXCEPT ![NewBlock] = LiveBlock(copy_nonoverlapping(heap[p].val)),
                      ![p] = Release(@, "ZeroDropCow")]

\* into_boxed(mut self).  Borrowed(b): ZeroDrop::new_copy(b).  Boxed(ref mut o):
\* a new Box b is allocated uninitialized (image g), swap::<T>(o, &mut b)
\* exchanges the two boxes' contents (both arguments deref to &mut T), and
\* ZeroDrop::new_box(b) wraps the new box.  self is dropped on return.
IntoBoxedHeap(p, tag, g) ==
    IF tag = "Borrowed"
    THEN [heap EXCEPT ![NewBlock] = LiveBlock(copy_nonoverlapping(heap[p].val))]
    ELSE [heap EXCEPT ![NewBlock] = LiveBlock(swap(heap[p].val, g)[2]),
                      ![p] = ZeroDropCowEnd([@ EXCEPT !.val = swap(heap[p].val, g)[1]], tag)]

\* IntoBoxedResult wrapping the pointer the ZeroDropCow held.
IntoBoxedResultAlias(o) ==
    Derived(Wrapper("ZeroDrop", "Boxed", objs[o].ptr, heap[objs[o].ptr].val, "into_boxed"),
            o, heap')

IntoBoxedResult(o) ==
    Derived(Wrapper("ZeroDrop", "Boxed", NewBlock, heap[objs[o].ptr].val, "into_boxed"), o, heap')

ZeroDropCow_into_boxed ==
    \E o \in Objs, g \in Uninit :
        /\ Alive(o) /\ objs[o].kind = "ZeroDropCow"
        /\ Owning(o) => ~Lent(objs[o].ptr)
        /\ objs[o].tag = "Borrowed" => g = Junk    \* no uninitialized box in this arm
        /\ CanAlloc /\ CanMake
        /\ heap' = IntoBoxedHeap(objs[o].ptr, objs[o].tag, g)
        /\ objs' = [objs EXCEPT ![NewObj] = IntoBoxedResult(o), ![o].st = "dropped"]
        /\ UNCHANGED <<dflt, counter>>

\* Clone: Borrowed(b) => Borrowed(b); Boxed(ref o) => new_copy(o.deref()).
CowCloneHeap(o) ==
    IF objs[o].tag = "Borrowed" THEN heap
    ELSE [heap EXCEPT ![NewBlock] = LiveBlock(copy_nonoverlapping(heap[objs[o].ptr].val))]

\* CowCloneResult keeping the source's pointer in either variant.
CowCloneResultAlias(o) ==
    Derived(Wrapper("ZeroDropCow", objs[o].tag, objs[o].ptr,
                    heap[objs[o].ptr].val, "clone"), o, heap')

CowCloneResult(o) ==
    IF objs[o].tag = "Borrowed"
    THEN Derived(Wrapper("ZeroDropCow", "Borrowed", objs[o].ptr,
                         heap[objs[o].ptr].val, "clone"), o, heap')
    ELSE Derived(Wrapper("ZeroDropCow", "Boxed", NewBlock,
                         heap[objs[o].ptr].val, "clone"), o, heap')

ZeroDropCow_clone ==
    \E o \in Objs :
        /\ Alive(o) /\ objs[o].kind = "ZeroDropCow"
        /\ CanMake /\ (Owning(o) => CanAlloc)
        /\ heap' = CowCloneHeap(o)
        /\ objs' = [objs EXCEPT ![NewObj] = CowCloneResult(o)]
        /\ UNCHANGED <<dflt, counter>>

ZeroDropCow_deref ==
    \E o \in Objs :
        /\ Alive(o) /\ objs[o].kind = "ZeroDropCow"
        /\ heap[objs[o].ptr].val \in T
        /\ UNCHANGED vars

----------------------------------------------------------------------------
Init ==
    /\ heap = [b \in Blocks |-> IF b = 0 THEN [NoBlock EXCEPT !.st = "caller", !.val = Fill(MaxByte)]
                                         ELSE NoBlock]
    /\ objs = [o \in Objs |-> NoObj]
    /\ dflt \in Defaults
    /\ counter = 0

Next ==
    \/ clone
    \/ clone_from
    \/ deref
    \/ deref_mut
    \/ ZeroDrop_new_insecure
    \/ ZeroDrop_new_box
    \/ ZeroDrop_new_uninitialized
    \/ ZeroDrop_new_copy
    \/ ZeroDrop_new_zeroed
    \/ ZeroDrop_default
    \/ ZeroDrop_zero_out
    \/ ZeroDrop_drop
    \/ LibZeroDrop_new_default
    \/ LibZeroDrop_new_clone
    \/ LibZeroDrop_new_insecure
    \/ LibZeroDrop_default
    \/ LibZeroDrop_drop
    \/ ZeroDropDrop_new_default
    \/ ZeroDropDrop_new_uninitialized
    \/ ZeroDropDrop_zero_out
    \/ ZeroDropDrop_drop
    \/ ZeroDropCow_new_insecure
    \/ ZeroDropCow_new_uninitialized
    \/ ZeroDropCow_new
    \/ ZeroDropCow_new_copy
    \/ ZeroDropCow_default
    \/ ZeroDropCow_drop
    \/ ZeroDropCow_into_boxed
    \/ ZeroDropCow_clone
    \/ ZeroDropCow_deref

Spec == Init /\ [][Next]_vars

----------------------------------------------------------------------------
\* Properties.

Freed(b) == heap[b].st = "freed"
FreedBy(b, kinds) == Freed(b) /\ heap[b].owner \in kinds
\* A live owning wrapper's allocation holds what was last put in it through
\* the wrapper.
Intact(o) == heap[objs[o].ptr].st = "live" /\ heap[objs[o].ptr].val = objs[o].want
OwnerIntact(b) ==
    \A o \in Objs : (Alive(o) /\ Owning(o) /\ objs[o].ptr = b) => Intact(o)

\* C1: once a ZeroDrop<T> (of zd.rs or of lib.rs) is dropped, the block that
\* backed it reads as all-zero bytes.
C1_ZeroAfterDrop ==
    \A b \in HeapBlocks : FreedBy(b, {"ZeroDrop", "LibZeroDrop"}) => heap[b].val = Zero

\* C2: a live ZeroDrop<T> on which neither write access nor zero_out was used
\* reads, through a pointer to its allocation, as the value it was made with.
C2_IntactWhileAlive ==
    \A o \in Objs :
        (Alive(o) /\ objs[o].kind \in {"ZeroDrop", "LibZeroDrop"} /\ ~objs[o].dirty)
            => Intact(o)

\* A ZeroDrop still holds a non-zero secret after another wrapper was erased
\* and released.
C2_Witness ==
    \E o \in Objs, b \in HeapBlocks :
        /\ Alive(o) /\ objs[o].kind \in {"ZeroDrop", "LibZeroDrop"} /\ ~objs[o].dirty
        /\ objs[o].want = Fill(MaxByte)
        /\ Freed(b) /\ heap[b].erasures = 1

\* C3: every allocation an owning wrapper releases was erased exactly once
\* before its release.
C3_ErasedOnceBeforeFree ==
    \A b \in HeapBlocks : Freed(b) => heap[b].erasures = 1

\* C4: the operations of a Borrowed ZeroDropCow leave the borrowed memory as it
\* was: the caller's array keeps its bytes, a live Borrowed value still sees
\* the bytes it borrowed, and a wrapper that was borrowed from is intact.
C4_BorrowedUntouched ==
    /\ heap[0].st = "caller" /\ heap[0].val = Fill(MaxByte)
    /\ \A c \in Objs :
          (objs[c].kind = "ZeroDropCow" /\ objs[c].tag = "Borrowed") =>
              /\ Alive(c) => (heap[objs[c].ptr].st \in {"caller", "live"}
                              /\ heap[objs[c].ptr].val = objs[c].want)
              /\ OwnerIntact(objs[c].ptr)

\* A Borrowed ZeroDropCow was dropped, and one was promoted by into_boxed to a
\* ZeroDrop that has since been erased.
C4_Witness ==
    \E c \in Objs, r \in Objs :
        /\ objs[c].kind = "ZeroDropCow" /\ objs[c].tag = "Borrowed"
        /\ objs[c].st = "dropped" /\ objs[c].want # Zero
        /\ objs[r].via = "into_boxed" /\ objs[r].src = c /\ objs[r].st = "dropped"

\* C5: into_boxed on a Borrowed value returns a ZeroDrop holding the borrowed
\* bytes in a block allocated by the call and distinct from the borrowed one;
\* the borrowed memory keeps its bytes, also after that ZeroDrop is erased.
C5_PromotionCopies ==
    \A r \in Objs :
        (objs[r].via = "into_boxed" /\ objs[r].srcTag = "Borrowed") =>
            /\ objs[r].ptr # objs[r].srcPtr
            /\ objs[r].allocd = 1
            /\ (Alive(r) /\ ~objs[r].dirty) =>
                  (Intact(r) /\ heap[objs[r].ptr].val = objs[objs[r].src].want)
            /\ objs[r].srcPtr = 0 => heap[0].val = objs[objs[r].src].want
            /\ OwnerIntact(objs[r].srcPtr)

\* The promoted copy of a non-zero secret was erased and released.
C5_Witness ==
    \E r \in Objs :
        /\ objs[r].via = "into_boxed" /\ objs[r].srcTag = "Borrowed"
        /\ objs[r].want # Zero /\ objs[r].st = "dropped"
        /\ Freed(objs[r].ptr) /\ heap[objs[r].ptr].val = Zero

\* C6: into_boxed on a Boxed value returns a ZeroDrop owning the block the
\* ZeroDropCow owned, with no block allocated by the call.
C6_IntoBoxedMovesBox ==
    \A r \in Objs :
        (objs[r].via = "into_boxed" /\ objs[r].srcTag = "Boxed") =>
            /\ objs[r].ptr = objs[r].srcPtr
            /\ objs[r].allocd = 0

\* C7: a ZeroDrop made by clone, or overwritten by clone_from, holds the
\* source's contents in an allocation distinct from the source's, and each of
\* the two keeps its contents whatever happens to the other.
C7_CloneIndependent ==
    \A r \in Objs :
        (objs[r].kind \in {"ZeroDrop", "LibZeroDrop"} /\ objs[r].via \in {"clone", "clone_from"}) =>
            /\ objs[r].ptr # objs[r].srcPtr
            /\ Alive(r) => Intact(r)
            /\ Alive(objs[r].src) => Intact(objs[r].src)

\* Exactly one of a clone and its source has been erased, the other still
\* holding the non-zero secret.
C7_Witness ==
    \E r \in Objs :
        /\ objs[r].kind \in {"ZeroDrop", "LibZeroDrop"} /\ objs[r].via \in {"clone", "clone_from"}
        /\ objs[r].want # Zero
        /\ \/ Alive(r) /\ objs[objs[r].src].st = "dropped"
           \/ objs[r].st = "dropped" /\ Alive(objs[r].src) /\ objs[objs[r].src].want # Zero

\* C8: the end of life of a ZeroDropDrop<T> runs T's teardown on the held
\* value, writes T's default over it, runs T's teardown on that default and
\* frees the block, and the teardown counter stands at two per destroyed wrapper.
C8_TwoTeardownsInOrder ==
    /\ \A b \in HeapBlocks :
          FreedBy(b, {"ZeroDropDrop"}) =>
              heap[b].log = <<"teardown held", "write default", "teardown default", "dealloc">>
    /\ counter = 2 * Cardinality({b \in HeapBlocks : FreedBy(b, {"ZeroDropDrop"})})

\* C9: every end-of-life erasing write is a volatile one.
C9_VolatileErase ==
    \A b \in HeapBlocks : heap[b].store # "ordinary"

\* C10: ZeroDropCow::clone keeps the variant: a Borrowed clone holds the same
\* reference and allocates nothing, a Boxed clone holds the source's contents
\* in a block of its own, and clone and source stay intact independently.
C10_CowClone ==
    \A r \in Objs :
        (objs[r].kind = "ZeroDropCow" /\ objs[r].via = "clone") =>
            /\ objs[r].tag = objs[r].srcTag
            /\ objs[r].tag = "Borrowed" => (objs[r].ptr = objs[r].srcPtr /\ objs[r].allocd = 0)
            /\ objs[r].tag = "Boxed" =>
                  /\ objs[r].ptr # objs[r].srcPtr /\ objs[r].allocd = 1
                  /\ Alive(r) => Intact(r)
                  /\ Alive(objs[r].src) => Intact(objs[r].src)

\* A Boxed clone outlives its erased source, still holding the non-zero secret.
C10_Witness ==
    \E r \in Objs :
        /\ objs[r].kind = "ZeroDropCow" /\ objs[r].via = "clone" /\ objs[r].tag = "Boxed"
        /\ Alive(r) /\ objs[r].want # Zero
        /\ objs[objs[r].src].st = "dropped" /\ heap[objs[r].srcPtr].val = Zero

\* C11: once into_boxed has returned for a Boxed value, the ZeroDrop it
\* returned reads as the value the ZeroDropCow held, in the one block the call
\* allocated; the block the ZeroDropCow held is no longer live and was
\* overwritten with zero, by one volatile erasing write, before it was freed.
C11_SecretInOneBlock ==
    \A r \in Objs :
        (objs[r].via = "into_boxed" /\ objs[r].srcTag = "Boxed") =>
            /\ (Alive(r) /\ ~objs[r].dirty) =>
                  (Intact(r) /\ heap[objs[r].ptr].val = objs[objs[r].src].want)
            /\ objs[r].allocd = 1
            /\ objs[objs[r].src].st = "dropped"
            /\ objs[r].srcPtr # objs[r].ptr
            /\ Freed(objs[r].srcPtr)
            /\ heap[objs[r].srcPtr].val = Zero
            /\ heap[objs[r].srcPtr].erasures = 1
            /\ heap[objs[r].srcPtr].store = "volatile"

\* into_boxed has returned a live ZeroDrop holding the non-zero secret of a
\* Boxed ZeroDropCow, whose own block is freed.
C11_Witness ==
    \E r \in Objs :
        /\ objs[r].via = "into_boxed" /\ objs[r].srcTag = "Boxed"
        /\ Alive(r) /\ ~objs[r].dirty /\ objs[r].want \in Inputs
        /\ heap[objs[r].ptr].val = objs[r].want
        /\ Freed(objs[r].srcPtr)

\* How often the end of life recorded in log ran T's teardown on the value
\* the wrapper held.
HeldTeardowns(log) ==
    Cardinality({i \in DOMAIN log : log[i] \in {"teardown held: panic", "teardown held"}})

\* C12: in no end of life of a ZeroDropDrop<T>, failing or not, does T's
\* teardown run twice on the value the wrapper held.
C12_NoDoubleTeardown ==
    \A b \in HeapBlocks :
        FreedBy(b, {"ZeroDropDrop"}) => HeldTeardowns(heap[b].log) <= 1
====
